---- MODULE Spec2Model ----
(***************************************************************************)
(* The wire protocol of transhift/common (src/common/protocol.go): the     *)
(* packet table, Message.MarshalBinary, and MessageChannel, whose two      *)
(* goroutines couple a net.Conn to the channels `in` and `out`.            *)
(***************************************************************************)
EXTENDS Integers, Sequences, FiniteSets, TLC

(***************************************************************************)
(* Bounds of the model.                                                    *)
(***************************************************************************)
\* messages the application may hand to the `out` channel
MaxSend == 2
\* bytes the peer may put on the inbound direction of the connection
MaxInBytes == 4
\* bytes on the outbound direction up to which the writer is followed when
\* it keeps receiving from a closed `out`
MaxWire == 4

(***************************************************************************)
(* Packet constants and the two framing tables.                            *)
(***************************************************************************)
UidLength == 16

ClientType == 0
UidAssignment == 1
UidRequest == 2
PeerNotFound == 3
UploaderReady == 4
FileName == 5
FileSize == 6
FileHash == 7
Verification == 8
ProtocolError == 9
InternalError == 10
Halt == 11

bodilessPackets == {PeerNotFound, UploaderReady}

\* faulty variant: FileSize declared with a 4-byte body
fixedLengthPackets_FileSize4 ==
    (ClientType :> 1) @@ (UidAssignment :> UidLength) @@
    (UidRequest :> UidLength) @@ (FileSize :> 4) @@
    (FileHash :> 32) @@ (Verification :> 1)

fixedLengthPackets ==
    (ClientType :> 1) @@ (UidAssignment :> UidLength) @@
    (UidRequest :> UidLength) @@ (FileSize :> 8) @@
    (FileHash :> 32) @@ (Verification :> 1)

\* faulty variant: the loop skips the first entry of bodilessPackets
isBodiless_SkipFirst(p) == \E v \in bodilessPackets \ {PeerNotFound} : v = p

isBodiless(p) == \E v \in bodilessPackets : v = p

\* a byte(...) conversion
byte(n) == n % 256

\* make([]byte, n): n zero bytes
Zeros(n) == [i \in 1..n |-> 0]

(***************************************************************************)
(* Message and its constructor.                                            *)
(***************************************************************************)
Message(packet, body) == [Packet |-> packet, Body |-> body]

\* the zero value of Message, which a receive from a closed channel yields
ZeroMessage == Message(0, <<>>)

NewMesssageWithByte(packet, body) == Message(packet, <<body>>)

(***************************************************************************)
(* Message.MarshalBinary: [data, err].  data is nil (<<>>) on error.       *)
(***************************************************************************)
\* faulty variant: no bound check, the length byte wraps modulo 256
MarshalBinary_Wrap(m) ==
    IF isBodiless(m.Packet)
    THEN [data |-> <<byte(m.Packet)>>, err |-> FALSE]
    ELSE IF m.Packet \notin DOMAIN fixedLengthPackets
         THEN [data |-> <<byte(m.Packet), byte(Len(m.Body))>> \o m.Body,
               err |-> FALSE]
         ELSE [data |-> <<byte(m.Packet)>> \o m.Body, err |-> FALSE]

\* faulty variant: a length byte for every kind that has a body
MarshalBinary_LenAlways(m) ==
    IF isBodiless(m.Packet)
    THEN [data |-> <<byte(m.Packet)>>, err |-> FALSE]
    ELSE IF Len(m.Body) > 255
         THEN [data |-> <<>>, err |-> TRUE]
         ELSE [data |-> <<byte(m.Packet), byte(Len(m.Body))>> \o m.Body,
               err |-> FALSE]

MarshalBinary(m) ==
    IF isBodiless(m.Packet)
    THEN [data |-> <<byte(m.Packet)>>, err |-> FALSE]
    ELSE IF m.Packet \notin DOMAIN fixedLengthPackets
         THEN IF Len(m.Body) > 255
              THEN [data |-> <<>>, err |-> TRUE]
              ELSE [data |-> <<byte(m.Packet), byte(Len(m.Body))>> \o m.Body,
                    err |-> FALSE]
         ELSE [data |-> <<byte(m.Packet)>> \o m.Body, err |-> FALSE]

(***************************************************************************)
(* conn.Read(buf) with len(buf) = size when `avail` bytes have arrived:    *)
(* it copies what is there, at most size bytes, and reports the count n.   *)
(* The rest of buf keeps the zeros make() put there.                       *)
(***************************************************************************)
Min(a, b) == IF a < b THEN a ELSE b

ConnRead(avail, size) ==
    LET n == Min(size, Len(avail))
    IN  [n    |-> n,
         buf  |-> SubSeq(avail, 1, n) \o Zeros(size - n),
         rest |-> SubSeq(avail, n + 1, Len(avail))]

(***************************************************************************)
(* State.                                                                  *)
(***************************************************************************)
VARIABLES
    inCloses,   \* number of close(in) calls executed
    outCloses,  \* number of close(out) calls executed
    crashed,    \* the process has died of an unrecovered panic
    \* the connection
    rbuf,       \* inbound bytes arrived and not yet read
    rwire,      \* every inbound byte the peer has sent, in order
    wire,       \* every byte conn.Write has put on the outbound direction
    \* reader goroutine
    rpc,        \* its position
    rpacket,    \* packet
    rlen,       \* len
    rn,         \* the count the last conn.Read returned (discarded as _)
    rmsg,       \* the Message about to be sent on `in`
    rexit,      \* why the reader left its loop
    rpanic,     \* the reader goroutine is panicking
    \* writer goroutine
    wpc,        \* its position
    wmsg,       \* the value received from `out`
    wok,        \* whether that receive was of a value really sent
    wdata,      \* data
    wexit,      \* why the writer left its loop
    wpanic,     \* the writer goroutine is panicking
    \* application
    sent,       \* Messages whose send on `out` completed, in order
    delivered,  \* Messages received from `in`, in order
    \* codec harness (SpecCodec)
    cstage,     \* "off" | "new" | "built" | "encoded"
    csrc,       \* how cmsg was built: "ctor" | "literal"
    cmsg,       \* the Message under test
    cres,       \* MarshalBinary's result for it
    ctrail      \* bytes that follow its encoding on the stream

connVars == <<rbuf, rwire, wire>>
readerVars == <<rpc, rpacket, rlen, rn, rmsg, rexit, rpanic>>
writerVars == <<wpc, wmsg, wok, wdata, wexit, wpanic>>
codecVars == <<cstage, csrc, cmsg, cres, ctrail>>
vars == <<inCloses, outCloses, crashed, connVars, readerVars, writerVars,
          sent, delivered, codecVars>>

inClosed == inCloses > 0
outClosed == outCloses > 0

(***************************************************************************)
(* Inputs.                                                                 *)
(***************************************************************************)
\* a body of n bytes 1, 2, 3, ...
Ramp(n) == [i \in 1..n |-> byte(i)]

\* pieces in which the peer's bytes may arrive (TCP segments)
InChunks == { <<PeerNotFound>>, <<ClientType, 1>>, <<FileName, 2, 9>>,
              <<12, 1, 4>> }

\* Messages the application may send on `out`
OutMsgs == { Message(PeerNotFound, <<>>),
             NewMesssageWithByte(ClientType, 1),
             Message(FileName, <<9, 3>>),
             Message(Halt, Zeros(256)) }

\* packets and bodies of the codec harness
CodecPackets == 0..12 \cup {255}
CodecBodies == { Ramp(n) : n \in {0, 1, 2, 8, 16, 32, 255, 256} }
CodecTrails == { <<>>, <<PeerNotFound>> }

InitShared ==
    /\ inCloses = 0 /\ outCloses = 0 /\ crashed = FALSE
    /\ rbuf = <<>> /\ rwire = <<>> /\ wire = <<>>
    /\ rpc = "readPacket" /\ rpacket = 0 /\ rlen = 0 /\ rn = 0
    /\ rmsg = ZeroMessage /\ rexit = "none" /\ rpanic = FALSE
    /\ wpc = "recv" /\ wmsg = ZeroMessage /\ wok = TRUE /\ wdata = <<>>
    /\ wexit = "none" /\ wpanic = FALSE
    /\ sent = <<>> /\ delivered = <<>>
    /\ csrc = "literal" /\ cmsg = ZeroMessage
    /\ cres = [data |-> <<>>, err |-> FALSE] /\ ctrail = <<>>

\* MessageChannel(conn) has returned: both channels open, both goroutines
\* at the top of their loops
Init == InitShared /\ cstage = "off"

(***************************************************************************)
(* Reader goroutine.                                                       *)
(***************************************************************************)
\* faulty variant: a packet byte that is no declared Packet ends the loop
ReaderReadPacket_RejectUnknown ==
    /\ ~crashed /\ rpc = "readPacket" /\ rbuf # <<>>
    /\ LET r == ConnRead(rbuf, 1)
           packet == r.buf[1]
       IN  /\ rbuf' = r.rest
           /\ rn' = r.n
           /\ rpacket' = packet
           /\ IF isBodiless(packet)
              THEN /\ rmsg' = Message(packet, <<>>)
                   /\ rpc' = "sendIn"
                   /\ UNCHANGED <<rlen, rexit>>
              ELSE IF packet \in DOMAIN fixedLengthPackets
                   THEN /\ rlen' = fixedLengthPackets[packet]
                        /\ rpc' = "readBody"
                        /\ UNCHANGED <<rmsg, rexit>>
                   ELSE IF packet > Halt
                        THEN /\ rexit' = "readPacket"
                             /\ rpc' = "closeOut"
                             /\ UNCHANGED <<rlen, rmsg>>
                        ELSE /\ rlen' = 0
                             /\ rpc' = "readLen"
                             /\ UNCHANGED <<rmsg, rexit>>
    /\ UNCHANGED <<inCloses, outCloses, crashed, rwire, wire, rpanic,
                   writerVars, sent, delivered, codecVars>>

\* conn.Read(packetBuff) returned a byte
ReaderReadPacket ==
    /\ ~crashed /\ rpc = "readPacket" /\ rbuf # <<>>
    /\ LET r == ConnRead(rbuf, 1)
           packet == r.buf[1]
       IN  /\ rbuf' = r.rest
           /\ rn' = r.n
           /\ rpacket' = packet
           /\ IF isBodiless(packet)
              THEN /\ rmsg' = Message(packet, <<>>)
                   /\ rpc' = "sendIn"
                   /\ UNCHANGED rlen
              ELSE IF packet \in DOMAIN fixedLengthPackets
                   THEN /\ rlen' = fixedLengthPackets[packet]
                        /\ rpc' = "readBody"
                        /\ UNCHANGED rmsg
                   ELSE /\ rlen' = 0
                        /\ rpc' = "readLen"
                        /\ UNCHANGED rmsg
    /\ UNCHANGED <<inCloses, outCloses, crashed, rwire, wire, rexit, rpanic,
                   writerVars, sent, delivered, codecVars>>

\* conn.Read(lenBuff) returned a byte
ReaderReadLen ==
    /\ ~crashed /\ rpc = "readLen" /\ rbuf # <<>>
    /\ LET r == ConnRead(rbuf, 1)
       IN  /\ rbuf' = r.rest
           /\ rn' = r.n
           /\ rlen' = r.buf[1]
    /\ rpc' = "readBody"
    /\ UNCHANGED <<inCloses, outCloses, crashed, rwire, wire, rpacket, rmsg,
                   rexit, rpanic, writerVars, sent, delivered, codecVars>>

\* conn.Read(bodyBuff) returned without error; n is not looked at
ReaderReadBody ==
    /\ ~crashed /\ rpc = "readBody"
    /\ rlen = 0 \/ rbuf # <<>>
    /\ LET r == ConnRead(rbuf, rlen)
       IN  /\ rbuf' = r.rest
           /\ rn' = r.n
           /\ rmsg' = Message(rpacket, r.buf)
    /\ rpc' = "sendIn"
    /\ UNCHANGED <<inCloses, outCloses, crashed, rwire, wire, rpacket, rlen,
                   rexit, rpanic, writerVars, sent, delivered, codecVars>>

\* any of the three conn.Read calls returned an error: handleReadError, then
\* return (or break), which runs the deferred calls
ReaderReadError ==
    /\ ~crashed /\ rpc \in {"readPacket", "readLen", "readBody"}
    /\ rexit' = rpc
    /\ rpc' = "closeOut"
    /\ UNCHANGED <<inCloses, outCloses, crashed, connVars, rpacket, rlen, rn,
                   rmsg, rpanic, writerVars, sent, delivered, codecVars>>

\* in <- Message{...} completes: the application receives it
ReaderSendIn ==
    /\ ~crashed /\ rpc = "sendIn" /\ ~inClosed
    /\ delivered' = Append(delivered, rmsg)
    /\ rpc' = "readPacket"
    /\ UNCHANGED <<inCloses, outCloses, crashed, connVars, rpacket, rlen, rn,
                   rmsg, rexit, rpanic, writerVars, sent, codecVars>>

\* in <- Message{...} on a closed channel panics; the deferred calls run
ReaderSendPanic ==
    /\ ~crashed /\ rpc = "sendIn" /\ inClosed
    /\ rpanic' = TRUE
    /\ rexit' = "sendIn"
    /\ rpc' = "closeOut"
    /\ UNCHANGED <<inCloses, outCloses, crashed, connVars, rpacket, rlen, rn,
                   rmsg, writerVars, sent, delivered, codecVars>>

\* faulty variant: the reader does not close `out`
ReaderCloseOut_Skip ==
    /\ ~crashed /\ rpc = "closeOut"
    /\ rpc' = "closeIn"
    /\ UNCHANGED <<inCloses, outCloses, crashed, connVars, rpacket, rlen, rn,
                   rmsg, rexit, rpanic, writerVars, sent, delivered,
                   codecVars>>

\* deferred close(out), registered last and run first; closing a closed
\* channel panics and the remaining deferred call still runs
ReaderCloseOut ==
    /\ ~crashed /\ rpc = "closeOut"
    /\ outCloses' = outCloses + 1
    /\ rpanic' = (rpanic \/ outClosed)
    /\ rpc' = "closeIn"
    /\ UNCHANGED <<inCloses, crashed, connVars, rpacket, rlen, rn, rmsg,
                   rexit, writerVars, sent, delivered, codecVars>>

\* deferred close(in); the goroutine ends, and an unrecovered panic ends the
\* process
ReaderCloseIn ==
    /\ ~crashed /\ rpc = "closeIn"
    /\ inCloses' = inCloses + 1
    /\ rpanic' = (rpanic \/ inClosed)
    /\ crashed' = (rpanic \/ inClosed)
    /\ rpc' = "done"
    /\ UNCHANGED <<outCloses, connVars, rpacket, rlen, rn, rmsg, rexit,
                   writerVars, sent, delivered, codecVars>>

(***************************************************************************)
(* Writer goroutine.                                                       *)
(***************************************************************************)
\* data, err := m.MarshalBinary() and the branch on err, for the received m
WriterMarshal(m) ==
    LET r == MarshalBinary(m)
    IN  /\ wmsg' = m
        /\ wdata' = r.data
        /\ IF r.err
           THEN wpc' = "closeOut" /\ wexit' = "marshal"
           ELSE wpc' = "write" /\ UNCHANGED wexit

\* <-out receives m, which the application sends
WriterRecv(m) ==
    /\ ~crashed /\ wpc = "recv" /\ ~outClosed
    /\ Len(sent) < MaxSend
    /\ sent' = Append(sent, m)
    /\ wok' = TRUE
    /\ WriterMarshal(m)
    /\ UNCHANGED <<inCloses, outCloses, crashed, connVars, readerVars,
                   wpanic, delivered, codecVars>>

\* <-out on the closed channel returns the zero Message at once
WriterRecvClosed ==
    /\ ~crashed /\ wpc = "recv" /\ outClosed
    /\ Len(wire) < MaxWire
    /\ wok' = FALSE
    /\ WriterMarshal(ZeroMessage)
    /\ UNCHANGED <<inCloses, outCloses, crashed, connVars, readerVars,
                   wpanic, sent, delivered, codecVars>>

\* faulty variant: the write is not done while the reader holds a frame
WriterWrite_AfterReader ==
    /\ ~crashed /\ wpc = "write"
    /\ rpc # "sendIn"
    /\ wire' = wire \o wdata
    /\ wpc' = "recv"
    /\ UNCHANGED <<inCloses, outCloses, crashed, rbuf, rwire, readerVars,
                   wmsg, wok, wdata, wexit, wpanic, sent, delivered,
                   codecVars>>

\* conn.Write(data) wrote all of data
WriterWrite ==
    /\ ~crashed /\ wpc = "write"
    /\ wire' = wire \o wdata
    /\ wpc' = "recv"
    /\ UNCHANGED <<inCloses, outCloses, crashed, rbuf, rwire, readerVars,
                   wmsg, wok, wdata, wexit, wpanic, sent, delivered,
                   codecVars>>

\* conn.Write(data) returned an error after k < len(data) bytes
WriterWriteError(k) ==
    /\ ~crashed /\ wpc = "write"
    /\ k \in 0..(Len(wdata) - 1)
    /\ wire' = wire \o SubSeq(wdata, 1, k)
    /\ wexit' = "write"
    /\ wpc' = "closeOut"
    /\ UNCHANGED <<inCloses, outCloses, crashed, rbuf, rwire, readerVars,
                   wmsg, wok, wdata, wpanic, sent, delivered, codecVars>>

\* deferred close(out)
WriterCloseOut ==
    /\ ~crashed /\ wpc = "closeOut"
    /\ outCloses' = outCloses + 1
    /\ wpanic' = (wpanic \/ outClosed)
    /\ wpc' = "closeIn"
    /\ UNCHANGED <<inCloses, crashed, connVars, readerVars, wmsg, wok, wdata,
                   wexit, sent, delivered, codecVars>>

\* faulty variant: the writer does not close `in`
WriterCloseIn_Skip ==
    /\ ~crashed /\ wpc = "closeIn"
    /\ crashed' = wpanic
    /\ wpc' = "done"
    /\ UNCHANGED <<inCloses, outCloses, connVars, readerVars, wmsg, wok,
                   wdata, wexit, wpanic, sent, delivered, codecVars>>

\* deferred close(in)
WriterCloseIn ==
    /\ ~crashed /\ wpc = "closeIn"
    /\ inCloses' = inCloses + 1
    /\ wpanic' = (wpanic \/ inClosed)
    /\ crashed' = (wpanic \/ inClosed)
    /\ wpc' = "done"
    /\ UNCHANGED <<outCloses, connVars, readerVars, wmsg, wok, wdata, wexit,
                   sent, delivered, codecVars>>

(***************************************************************************)
(* Environment: the peer and the application.                              *)
(***************************************************************************)
\* bytes of the peer arrive at the connection
Arrive(chunk) ==
    /\ ~crashed
    /\ Len(rwire) + Len(chunk) <= MaxInBytes
    /\ rbuf' = rbuf \o chunk
    /\ rwire' = rwire \o chunk
    /\ UNCHANGED <<inCloses, outCloses, crashed, wire, readerVars,
                   writerVars, sent, delivered, codecVars>>

\* the application sends on `out` after it was closed: the send panics
AppSendClosed ==
    /\ ~crashed /\ outClosed
    /\ Len(sent) < MaxSend
    /\ crashed' = TRUE
    /\ UNCHANGED <<inCloses, outCloses, connVars, readerVars, writerVars,
                   sent, delivered, codecVars>>

Reader ==
    \/ ReaderReadPacket \/ ReaderReadLen \/ ReaderReadBody
    \/ ReaderReadError
    \/ ReaderSendIn \/ ReaderSendPanic
    \/ ReaderCloseOut \/ ReaderCloseIn

Writer ==
    \/ \E m \in OutMsgs : WriterRecv(m)
    \/ WriterRecvClosed
    \/ WriterWrite
    \/ \E k \in 0..3 : WriterWriteError(k)
    \/ WriterCloseOut \/ WriterCloseIn

Next ==
    \/ Reader
    \/ Writer
    \/ \E chunk \in InChunks : Arrive(chunk)
    \/ AppSendClosed

Spec == Init /\ [][Next]_vars

\* Scheduling: a goroutine that can take a step takes it.  A conn.Read
\* with bytes to return returns, and a conn.Write that does not fail
\* completes; whether bytes arrive, a call fails, or the application
\* sends or receives is not assumed.
Fairness ==
    /\ WF_vars(ReaderReadPacket) /\ WF_vars(ReaderReadLen)
    /\ WF_vars(ReaderReadBody) /\ WF_vars(ReaderSendPanic)
    /\ WF_vars(ReaderCloseOut) /\ WF_vars(ReaderCloseIn)
    /\ WF_vars(WriterRecvClosed) /\ WF_vars(WriterWrite)
    /\ WF_vars(WriterCloseOut) /\ WF_vars(WriterCloseIn)

SpecLive == Init /\ [][Next]_vars /\ Fairness

(***************************************************************************)
(* Codec harness: one Message is built, marshalled, and its bytes, whole,  *)
(* are handed to the reader's decode steps.                                *)
(***************************************************************************)
InitCodec == InitShared /\ cstage = "new"

\* the application builds the Message with the constructor
Construct(packet, body) ==
    /\ cstage = "new"
    /\ cmsg' = NewMesssageWithByte(packet, body)
    /\ csrc' = "ctor"
    /\ cstage' = "built"
    /\ UNCHANGED <<inCloses, outCloses, crashed, connVars, readerVars,
                   writerVars, sent, delivered, cres, ctrail>>

\* the application builds the Message from the exported fields
Literal(packet, body) ==
    /\ cstage = "new"
    /\ cmsg' = Message(packet, body)
    /\ csrc' = "literal"
    /\ cstage' = "built"
    /\ UNCHANGED <<inCloses, outCloses, crashed, connVars, readerVars,
                   writerVars, sent, delivered, cres, ctrail>>

\* cmsg.MarshalBinary(); on success the bytes, followed by trail, are what
\* the connection holds
Encode(trail) ==
    /\ cstage = "built"
    /\ LET r == MarshalBinary(cmsg)
       IN  /\ cres' = r
           /\ IF r.err
              THEN UNCHANGED <<rbuf, rwire, ctrail>>
              ELSE /\ rbuf' = r.data \o trail
                   /\ rwire' = r.data \o trail
                   /\ ctrail' = trail
    /\ cstage' = "encoded"
    /\ UNCHANGED <<inCloses, outCloses, crashed, wire, readerVars,
                   writerVars, sent, delivered, csrc, cmsg>>

NextCodec ==
    \/ \E p \in CodecPackets, b \in 0..1 : Construct(p, b)
    \/ \E p \in CodecPackets, b \in CodecBodies : Literal(p, b)
    \/ \E t \in CodecTrails : Encode(t)
    \/ ReaderReadPacket \/ ReaderReadLen \/ ReaderReadBody
    \/ ReaderSendIn

SpecCodec == InitCodec /\ [][NextCodec]_vars

(***************************************************************************)
(* Definitions the properties are stated with.                             *)
(***************************************************************************)
IsPrefix(s, t) == Len(s) <= Len(t) /\ SubSeq(t, 1, Len(s)) = s

\* the framing policy of the packet table of the specification (section 6)
TableBodiless == {PeerNotFound, UploaderReady}
TableFixed == {ClientType, UidAssignment, UidRequest, FileSize, FileHash,
               Verification}
TableVariable == {FileName, ProtocolError, InternalError, Halt}
TableLength(p) ==
    CASE p = ClientType -> 1
      [] p = UidAssignment -> 16
      [] p = UidRequest -> 16
      [] p = FileSize -> 8
      [] p = FileHash -> 32
      [] p = Verification -> 1

\* a Message that satisfies the framing policy of its (declared) kind
ValidMessage(m) ==
    \/ m.Packet \in TableBodiless /\ m.Body = <<>>
    \/ m.Packet \in TableFixed /\ Len(m.Body) = TableLength(m.Packet)
    \/ m.Packet \in TableVariable /\ Len(m.Body) <= 255

\* encode(m1) ++ ... ++ encode(mN); a Message whose encoding fails adds
\* no byte
RECURSIVE EncodeAll(_)
EncodeAll(ms) ==
    IF ms = <<>> THEN <<>>
    ELSE MarshalBinary(Head(ms)).data \o EncodeAll(Tail(ms))

\* the complete frames of a byte stream, in order: kind, then nothing, N
\* bytes, or a length byte L and L bytes (an undeclared kind framed as the
\* code frames it, with a length byte)
RECURSIVE Frames(_)
Frames(s) ==
    IF s = <<>> THEN <<>>
    ELSE LET p == s[1]
             hdr == IF p \in TableBodiless \/ p \in TableFixed THEN 1 ELSE 2
             n == IF p \in TableBodiless THEN 0
                  ELSE IF p \in TableFixed THEN TableLength(p)
                  ELSE IF Len(s) >= 2 THEN s[2] ELSE 0
         IN  IF Len(s) >= hdr + n
             THEN <<Message(p, SubSeq(s, hdr + 1, hdr + n))>>
                  \o Frames(SubSeq(s, hdr + n + 1, Len(s)))
             ELSE <<>>

(***************************************************************************)
(* C1: close is performed at most once on `in` and at most once on `out`:  *)
(* no execution closes a channel that is already closed.                   *)
(* The reader and the writer each defer close(in) and close(out), so       *)
(* when both leave their loops the second one closes closed channels.      *)
(***************************************************************************)
C1_CloseAtMostOnce == inCloses <= 1 /\ outCloses <= 1

(***************************************************************************)
(* C2: when a read of the reader (kind, length or body) has reported an    *)
(* error, the reader closes both channels: `out` is closed once its first  *)
(* deferred call has run, and both are closed when it has ended.           *)
(***************************************************************************)
C2_ReadErrorClosesBoth ==
    rexit \in {"readPacket", "readLen", "readBody"} =>
        /\ rpc = "closeIn" => outClosed
        /\ rpc = "done" => (inClosed /\ outClosed)

C2_Witness ==
    /\ rpc = "done" /\ rexit = "readBody"
    /\ wpc = "recv" /\ ~crashed
    /\ inCloses = 1 /\ outCloses = 1

(***************************************************************************)
(* C3: once `out` is closed by the reader's teardown, the writer at its    *)
(* receive stops: what it receives from the closed channel is not encoded  *)
(* and written, so the bytes on the wire do not grow.                      *)
(* The writer ignores the closed signal of the receive and writes the      *)
(* encoding of the zero Message.                                           *)
(***************************************************************************)
C3_NoWriteAfterTeardown ==
    [][(outClosed /\ (wpc = "recv" \/ ~wok)) => wire' = wire]_vars

(***************************************************************************)
(* C4: the bytes written to the connection are the encodings of the        *)
(* Messages sent on `out`, in order: always a prefix of their              *)
(* concatenation, and all of it whenever the writer is back at its         *)
(* receive.                                                                *)
(***************************************************************************)
C4_WireIsEncodingOfSent ==
    /\ IsPrefix(wire, EncodeAll(sent))
    /\ (wpc = "recv" => wire = EncodeAll(sent))

(***************************************************************************)
(* C5: the Messages delivered on `in` are the frames on the wire, in       *)
(* order: the k-th delivered Message is the k-th frame.                    *)
(***************************************************************************)
C5_DeliveredAreWireFrames == IsPrefix(delivered, Frames(rwire))

(***************************************************************************)
(* C6: a Message with a body is produced for `in` only when the body read  *)
(* supplied every byte asked for.                                          *)
(***************************************************************************)
C6_OnlyFullReadsDelivered ==
    (rpc = "sendIn" /\ ~isBodiless(rpacket)) => rn = rlen

(***************************************************************************)
(* C7: round trip.  For a Message valid under its kind's policy,           *)
(* MarshalBinary succeeds and the reader's decode of its bytes yields the  *)
(* same kind and body, leaving exactly the bytes that follow them.         *)
(***************************************************************************)
C7_RoundTrip ==
    (cstage = "encoded" /\ ValidMessage(cmsg)) =>
        /\ ~cres.err
        /\ (delivered = <<>> /\ rpc # "readPacket") => rpacket = cmsg.Packet
        /\ (delivered = <<>> /\ rpc = "readLen") => rbuf # <<>>
        /\ (delivered = <<>> /\ rpc = "readBody") =>
               (rlen = Len(cmsg.Body) /\ rbuf = cmsg.Body \o ctrail)
        /\ (delivered = <<>> /\ rpc = "sendIn") =>
               (rmsg = cmsg /\ rbuf = ctrail)
        /\ delivered # <<>> => delivered[1] = cmsg

C7_Witness ==
    /\ cstage = "encoded" /\ cmsg = Message(FileName, Ramp(2))
    /\ ctrail = <<PeerNotFound>>
    /\ delivered = <<cmsg>> /\ rbuf = ctrail

(***************************************************************************)
(* C8: MarshalBinary's output is the kind byte, then a length byte equal   *)
(* to len(body) exactly when the kind is variable, then the body bytes,    *)
(* none for a bodiless kind.                                               *)
(***************************************************************************)
C8_WireLayout ==
    (cstage = "encoded" /\ ~cres.err /\ cmsg.Packet \in 0..11) =>
        /\ cres.data =
              <<cmsg.Packet>>
              \o (IF cmsg.Packet \in TableVariable
                  THEN <<Len(cmsg.Body)>> ELSE <<>>)
              \o (IF cmsg.Packet \in TableBodiless
                  THEN <<>> ELSE cmsg.Body)
        /\ cmsg = Message(ClientType, <<1>>) => cres.data = <<0, 1>>
        /\ cmsg.Packet = PeerNotFound => cres.data = <<3>>

C8_Witness ==
    /\ cstage = "encoded" /\ cmsg = Message(FileHash, Ramp(32))
    /\ cres.data = <<FileHash>> \o Ramp(32)

(***************************************************************************)
(* C9: a variable kind with a body of more than 255 bytes: an error and    *)
(* no output; with exactly 255 bytes: the kind, 0xFF, the body.  A length  *)
(* byte always equals the body's length.                                   *)
(***************************************************************************)
C9_LengthBound ==
    (cstage = "encoded" /\ cmsg.Packet \in TableVariable) =>
        /\ Len(cmsg.Body) > 255 => (cres.err /\ cres.data = <<>>)
        /\ Len(cmsg.Body) = 255 =>
               (~cres.err /\ cres.data = <<cmsg.Packet, 255>> \o cmsg.Body)
        /\ ~cres.err => cres.data[2] = Len(cmsg.Body)

C9_Witness ==
    /\ cstage = "encoded" /\ cmsg = Message(Halt, Ramp(256))
    /\ cres.err /\ rbuf = <<>>

(***************************************************************************)
(* C10: a Message built by a constructor satisfies its kind's framing      *)
(* policy; a body of the wrong length is rejected.                         *)
(* NewMesssageWithByte validates nothing.                                  *)
(***************************************************************************)
C10_ConstructorRejectsInvalid ==
    (cstage # "new" /\ csrc = "ctor") => ValidMessage(cmsg)

(***************************************************************************)
(* C11: a send on `out` by the application after `out` was closed is       *)
(* rejected or ignored: the process does not crash, the state of the pump  *)
(* does not change, and no byte is written.                                *)
(* `out` is a bare Go channel: the send on it, once closed, panics.        *)
(***************************************************************************)
C11_SendAfterCloseIgnored ==
    [][AppSendClosed =>
          (/\ ~crashed'
           /\ wire' = wire
           /\ UNCHANGED <<inCloses, outCloses, readerVars, writerVars>>)]_vars

(***************************************************************************)
(* C12: once a loop has observed a failure the pump goes on to Closed:     *)
(* when neither loop can take a further step of its own, both channels     *)
(* are closed and both loops have ended.                                   *)
(* The loop that did not fail is not stopped: the reader stays in          *)
(* conn.Read after the writer's teardown (and the writer keeps receiving   *)
(* from the closed `out` after the reader's).  That a failure, once        *)
(* observed, stays observed and a closed channel stays closed does hold.   *)
(***************************************************************************)
Failed == rexit # "none" \/ wexit # "none"

\* the reader waits in conn.Read for bytes, or in its send for a receiver
ReaderBlocked ==
    \/ rpc \in {"readPacket", "readLen"} /\ rbuf = <<>>
    \/ rpc = "readBody" /\ rlen > 0 /\ rbuf = <<>>
    \/ rpc = "sendIn" /\ ~inClosed

\* the writer waits in its receive for a sender
WriterBlocked == wpc = "recv" /\ ~outClosed

Closed == inClosed /\ outClosed /\ rpc = "done" /\ wpc = "done"

C12_ClosingCompletes ==
    (/\ Failed
     /\ ~crashed
     /\ rpc = "done" \/ ReaderBlocked
     /\ wpc = "done" \/ WriterBlocked) => Closed

(***************************************************************************)
(* C13: when the writer's encode or write has failed, the writer writes    *)
(* nothing further, nothing of a Message whose encode failed is written,   *)
(* and the writer closes both channels: `out` is closed once its first     *)
(* deferred call has run, both when it has ended.                          *)
(***************************************************************************)
C13_WriterFailureTeardown ==
    /\ [](wexit # "none" =>
            /\ wpc \in {"closeOut", "closeIn", "done"}
            /\ wexit = "marshal" => (wdata = <<>> /\ wok
                                     /\ IsPrefix(wire, EncodeAll(sent)))
            /\ wpc = "closeIn" => outClosed
            /\ wpc = "done" => (inClosed /\ outClosed))
    /\ [][wexit # "none" => wire' = wire]_vars

C13_Witness ==
    /\ wpc = "done" /\ wexit = "marshal" /\ ~crashed
    /\ wmsg = Message(Halt, Zeros(256))
    /\ Len(sent) = 2 /\ wire = MarshalBinary(sent[1]).data /\ wire # <<>>
    /\ inCloses = 1 /\ outCloses = 1

(***************************************************************************)
(* C14: while no loop has failed the two directions progress               *)
(* independently.  A Message the writer has received is written (given     *)
(* that conn.Write succeeds) whatever the reader does, also when the       *)
(* reader waits for bytes or for a receiver on `in`; and, when the         *)
(* application keeps receiving from `in`, a complete frame waiting on the  *)
(* connection is decoded and then delivered whatever the writer does.      *)
(***************************************************************************)
\* the reader is between frames and a whole frame has arrived
FrameReady == rpc = "readPacket" /\ Frames(rbuf) # <<>>

C14_IndependentProgress ==
    /\ (wpc = "write" /\ ~Failed)
           ~> ((wpc = "recv" /\ wire = EncodeAll(sent)) \/ Failed)
    /\ WF_vars(ReaderSendIn) =>
           /\ (FrameReady /\ ~Failed) ~> (rpc = "sendIn" \/ Failed)
           /\ (rpc = "sendIn" /\ ~Failed)
                  ~> ((rpc = "readPacket" /\ delivered # <<>>) \/ Failed)

\* the writer has written a Message while the reader waits for a receiver
C14_Witness ==
    /\ ~Failed /\ rpc = "sendIn" /\ wpc = "recv"
    /\ sent # <<>> /\ wire = EncodeAll(sent) /\ delivered = <<>>

(***************************************************************************)
(* C15: for each of the 12 declared kinds the decode consumes exactly one  *)
(* frame as the packet table fixes it: 1 byte for a bodiless kind, 1 + N   *)
(* for a fixed(N) kind with no length byte read, 2 + L for a variable      *)
(* kind with length byte L; the body is the N or L bytes that follow.      *)
(* Stated of the first frame of a stream that holds it whole.              *)
(***************************************************************************)
C15_DecodeConsumesOneFrame ==
    (cstage = "encoded" /\ delivered = <<>> /\ rwire # <<>>
        /\ rwire[1] \in 0..11) =>
        LET p == rwire[1]
            hdr == IF p \in TableVariable THEN 2 ELSE 1
            n == IF p \in TableBodiless THEN 0
                 ELSE IF p \in TableFixed THEN TableLength(p)
                 ELSE IF Len(rwire) >= 2 THEN rwire[2] ELSE 0
        IN  /\ rpc = "readLen" => p \in TableVariable
            /\ rpc = "readBody" => (rlen = n /\ p \notin TableBodiless)
            /\ (rpc = "sendIn" /\ Len(rwire) >= hdr + n) =>
                   /\ rmsg = Message(p, SubSeq(rwire, hdr + 1, hdr + n))
                   /\ Len(rwire) - Len(rbuf) = hdr + n

C15_Witness ==
    /\ cstage = "encoded" /\ delivered = <<>> /\ rpc = "sendIn"
    /\ rwire = <<UidAssignment>> \o Ramp(16) \o <<PeerNotFound>>
    /\ rmsg = Message(UidAssignment, Ramp(16))
    /\ rbuf = <<PeerNotFound>>

(***************************************************************************)
(* C16: a packet byte that is no declared Packet (0x0C..0xFF) is framed    *)
(* as variable by both directions: MarshalBinary emits a length byte, the  *)
(* decode reads a length byte L and L body bytes and produces the          *)
(* Message, and the reader does not leave its loop or close a channel.     *)
(***************************************************************************)
C16_UndeclaredIsVariable ==
    (cstage = "encoded" /\ cmsg.Packet \notin 0..11) =>
        /\ Len(cmsg.Body) <= 255 =>
               /\ ~cres.err
               /\ cres.data = <<cmsg.Packet, Len(cmsg.Body)>> \o cmsg.Body
        /\ rpc \in {"readPacket", "readLen", "readBody", "sendIn"}
        /\ rexit = "none" /\ inCloses = 0 /\ outCloses = 0
        /\ (delivered = <<>> /\ rpc = "readBody") =>
               (rlen = Len(cmsg.Body) /\ rbuf = cmsg.Body \o ctrail)
        /\ (delivered = <<>> /\ rpc = "sendIn") =>
               (rmsg = cmsg /\ rbuf = ctrail)
        /\ delivered # <<>> => delivered[1] = cmsg

C16_Witness ==
    /\ cstage = "encoded" /\ cmsg = Message(255, Ramp(2))
    /\ cres.data = <<255, 2, 1, 2>>
    /\ delivered = <<cmsg>> /\ rexit = "none"

(***************************************************************************)
(* C17: every Message the reader has for `in`, and every one delivered,    *)
(* satisfies the invariants of its kind, whatever bytes arrive and         *)
(* however they arrive: empty body for a bodiless kind, N bytes for a      *)
(* fixed(N) kind, at most 255 bytes otherwise.                             *)
(***************************************************************************)
MessageInvariant(m) ==
    /\ m.Packet \in TableBodiless => m.Body = <<>>
    /\ m.Packet \in TableFixed => Len(m.Body) = TableLength(m.Packet)
    /\ m.Packet \notin (TableBodiless \cup TableFixed) => Len(m.Body) <= 255

C17_DeliveredSatisfyInvariants ==
    /\ rpc = "sendIn" => MessageInvariant(rmsg)
    /\ \A i \in 1..Len(delivered) : MessageInvariant(delivered[i])

\* also after a short body read
C17_Witness ==
    /\ delivered = <<Message(FileName, <<9, 0>>), Message(PeerNotFound, <<>>)>>
    /\ rwire = <<FileName, 2, 9, PeerNotFound>>

(***************************************************************************)
(* C18: the reader never sends on `in` after the writer's teardown has     *)
(* closed it.                                                              *)
(* The reader does not learn of the close: a send that is waiting, or one  *)
(* made later, hits the closed channel and panics.                         *)
(***************************************************************************)
C18_NoSendOnClosedIn ==
    /\ rpc = "sendIn" => ~inClosed
    /\ rexit # "sendIn"

(***************************************************************************)
(* C19: whatever Message MarshalBinary accepts, its bytes are one frame    *)
(* for the decode: the decode yields a Message of the same kind and        *)
(* leaves exactly the bytes that follow, none of the next frame consumed.  *)
(* MarshalBinary writes the body of a fixed kind whatever its length, so   *)
(* the decode of a too short one takes the following bytes as body.  (It   *)
(* also drops the body of a bodiless kind, which the decode then cannot    *)
(* return.)                                                                *)
(***************************************************************************)
C19_AcceptedEncodingIsOneFrame ==
    (cstage = "encoded" /\ ~cres.err /\ delivered = <<>>
        /\ rpc = "sendIn") =>
        /\ rbuf = ctrail
        /\ rmsg.Packet = cmsg.Packet

====
